---- MODULE Spec2Model ----
(***************************************************************************)
(* Observability core of the web application: the correlated logger        *)
(* (logger.js), the request instrumentation middleware with its RED        *)
(* metrics and demo routes (app.js) and the tracing bootstrap with its     *)
(* SIGTERM handler (otel.js), as concatenated in src/app/logger.js.        *)
(*                                                                         *)
(* Node runs one callback at a time: every action below is one callback    *)
(* (or one synchronous segment of one), `cur` is the request whose         *)
(* synchronous segment is on the stack, and `active` is the span held by   *)
(* the context that api.context.active() returns at that moment.           *)
(***************************************************************************)
EXTENDS Integers, Sequences, FiniteSets, TLC

\* ------------------------------------------------------------------ bounds
MaxReq == 2          \* requests issued in one run
TickMs == 250        \* granularity of the modelled clock, in ms

\* ------------------------------------------------------- program constants
DefaultDelayMs == 500    \* parseInt(req.query.ms) || 500
DefaultErrorCode == 500  \* parseInt(req.query.code) || 500
ErrorThreshold == 500    \* the status codes counted as errors
OkStatus == 200          \* res.status(200) and the default res.statusCode
ExitOk == 0              \* process.exit(0)

VARIABLES
  requests,             \* r -> the request/response pair of request r
  nextReq,              \* the next request to arrive
  cur,                  \* request whose synchronous segment is running, 0 if none
  active,               \* span of the active context (0: no span)
  now,                  \* process.hrtime, in ms
  httpRequestDuration,  \* labels -> [count, sum] of the histogram
  httpRequestsTotal,    \* labels -> value of the counter
  httpErrorsTotal,      \* labels -> value of the counter
  sink,                 \* records written by the Console transport, in order
  sdk,                  \* state of the promise returned by sdk.shutdown()
  termPc,               \* position of the SIGTERM handler's promise chain
  console,              \* console.log lines of the SIGTERM handler
  exitCode,             \* <<>> while running, <<code>> after process.exit(code)
  call,                 \* a call of the logger from outside the application
  env,                  \* process.env: the two endpoint variables
  exporterOptions       \* options of the OTLP trace exporter, once otel.js has run

vars == <<requests, nextReq, cur, active, now, httpRequestDuration,
          httpRequestsTotal, httpErrorsTotal, sink, sdk, termPc, console,
          exitCode, call, env, exporterOptions>>

exporter == <<env, exporterOptions>>

Reqs == 1..MaxReq

\* ----------------------------------------------------------- conversions
Digits == <<"0", "1", "2", "3", "4", "5", "6", "7", "8", "9">>

IsDigit(c) == \E i \in 1..Len(Digits) : Digits[i] = c

DigitValue(c) == (CHOOSE i \in 1..Len(Digits) : Digits[i] = c) - 1

\* The longest prefix of s made of decimal digits.
RECURSIVE LeadingDigits(_)
LeadingDigits(s) ==
  IF s = <<>> \/ ~IsDigit(Head(s)) THEN <<>>
  ELSE <<Head(s)>> \o LeadingDigits(Tail(s))

RECURSIVE DigitsValue(_, _)
DigitsValue(ds, acc) ==
  IF ds = <<>> THEN acc ELSE DigitsValue(Tail(ds), acc * 10 + DigitValue(Head(ds)))

\* parseInt(q) || dflt for a query parameter q: <<>> when the parameter is
\* absent, else its characters. parseInt reads the leading digits and gives
\* NaN when there are none; NaN and 0 are falsy, so both yield dflt.
ParseIntOr(q, dflt) ==
  LET ds == LeadingDigits(q)
      n == DigitsValue(ds, 0)
  IN IF ds = <<>> \/ n = 0 THEN dflt ELSE n

\* String(n) for a non-negative integer n.
RECURSIVE String(_)
String(n) ==
  IF n < 10 THEN Digits[n + 1] ELSE String(n \div 10) \o Digits[(n % 10) + 1]

\* ------------------------------------------------------------------ spans
\* The span opened for the n-th request by the http auto-instrumentation
\* that sdk.start() installs; span.spanContext() of span n.
SpanContext(n) == [traceId |-> <<"trace", n>>, spanId |-> <<"span", n>>]

\* A context kept in one process-wide cell: every callback sees the span
\* opened last.
LastOpenedSpan(captured) == IF captured = nextReq THEN captured ELSE nextReq - 1

\* The context manager installed by sdk.start() keeps one context per
\* asynchronous chain: a callback runs with the context that was active when
\* it was registered.
EnterContext(captured) == captured

\* Leaving a callback restores the root context, which holds no span.
NoSpan == 0

\* ----------------------------------------------------------------- logger
EmptyObject == <<>>

\* The metadata argument of a call: left out, null, or the object o.
Omitted == [kind |-> "omitted", value |-> EmptyObject]
Null == [kind |-> "null", value |-> EmptyObject]
Given(o) == [kind |-> "object", value |-> o]

\* log that replaces the caller's metadata by the identifiers.
logReplace(level, message, metaArg) ==
  [threw |-> active # NoSpan /\ metaArg.kind = "null",
   level |-> level, message |-> message,
   meta |-> IF active # NoSpan
            THEN [trace_id |-> SpanContext(active).traceId,
                  span_id |-> SpanContext(active).spanId]
            ELSE metaArg.value]

\* log(level, message, meta = {}): the arguments handed to logger.log. The
\* span is api.trace.getSpan(api.context.active()); the default {} stands in
\* for a metadata argument that is left out, and setting a property of null
\* throws.
log(level, message, metaArg) ==
  LET span == active
      meta == metaArg.value
      withIds == IF span # NoSpan
                 THEN [trace_id |-> SpanContext(span).traceId,
                       span_id |-> SpanContext(span).spanId] @@ meta
                 ELSE meta
  IN [threw |-> span # NoSpan /\ metaArg.kind = "null",
      level |-> level, message |-> message, meta |-> withIds]

\* winston's npm levels; the logger is created with level "info".
LevelRank(level) ==
  CASE level = "error" -> 0
    [] level = "warn" -> 1
    [] level = "info" -> 2
    [] level = "debug" -> 5

\* A logger created with every level enabled.
LoggerLevelDebug == "debug"

LoggerLevel == "info"

\* logger.log(level, message, meta): the Console transport writes the record
\* when its level is enabled.
Emit(out, rec) ==
  IF ~rec.threw /\ LevelRank(rec.level) <= LevelRank(LoggerLevel)
  THEN Append(out, [level |-> rec.level, message |-> rec.message, meta |-> rec.meta])
  ELSE out

\* The four exported functions.
info(msg, metaArg) == log("info", msg, metaArg)
error(msg, metaArg) == log("error", msg, metaArg)
\* A warn that writes at info level.
warnAsInfo(msg, metaArg) == log("info", msg, metaArg)
warn(msg, metaArg) == log("warn", msg, metaArg)
debug(msg, metaArg) == log("debug", msg, metaArg)

\* ------------------------------------------------- trace export endpoint
\* A URL is the sequence of its path separators "/" and of the separator-free
\* pieces between them.
V1Traces == <<"/", "v1", "/", "traces">>

EndsWith(s, t) ==
  Len(s) >= Len(t) /\ SubSeq(s, Len(s) - Len(t) + 1, Len(s)) = t

\* /\/v1\/traces\/?$/.test(base)
PointsToTraces(base) ==
  EndsWith(base, V1Traces) \/ EndsWith(base, V1Traces \o <<"/">>)

\* base.replace(/\/+$/, "")
RECURSIVE StripSlashes(_)
StripSlashes(s) ==
  IF s # <<>> /\ s[Len(s)] = "/" THEN StripSlashes(SubSeq(s, 1, Len(s) - 1)) ELSE s

\* An environment variable: not set, or set to a (possibly empty) string.
Unset == [set |-> FALSE, value |-> <<>>]
Var(value) == [set |-> TRUE, value |-> value]

\* The left operand of || is taken when it is neither undefined nor "".
Truthy(v) == v.set /\ v.value # <<>>

\* "http://jaeger:4318"
DefaultEndpoint == <<"http:", "/", "/", "jaeger:4318">>

\* The environment with neither variable set.
NoEnv ==
  [OTEL_EXPORTER_OTLP_TRACES_ENDPOINT |-> Unset, OTEL_EXPORTER_OTLP_ENDPOINT |-> Unset]

\* A resolution that appends /v1/traces whatever the value ends in.
resolveAppendAlways(e) ==
  LET base == IF Truthy(e.OTEL_EXPORTER_OTLP_TRACES_ENDPOINT)
              THEN e.OTEL_EXPORTER_OTLP_TRACES_ENDPOINT.value
              ELSE IF Truthy(e.OTEL_EXPORTER_OTLP_ENDPOINT)
                   THEN e.OTEL_EXPORTER_OTLP_ENDPOINT.value
                   ELSE DefaultEndpoint
  IN StripSlashes(base) \o V1Traces

\* resolveTracesUrl(), reading the environment e.
resolveTracesUrl(e) ==
  LET base == IF Truthy(e.OTEL_EXPORTER_OTLP_TRACES_ENDPOINT)
              THEN e.OTEL_EXPORTER_OTLP_TRACES_ENDPOINT.value
              ELSE IF Truthy(e.OTEL_EXPORTER_OTLP_ENDPOINT)
                   THEN e.OTEL_EXPORTER_OTLP_ENDPOINT.value
                   ELSE DefaultEndpoint
  IN IF PointsToTraces(base) THEN base ELSE StripSlashes(base) \o V1Traces

\* otel.js has not run yet.
NoOptions == [loaded |-> FALSE, url |-> <<>>]

\* --------------------------------------------------------------- registry
Value(counter, labels) == IF labels \in DOMAIN counter THEN counter[labels] ELSE 0

\* inc that forgets every other label set of the counter.
IncReset(counter, labels) ==
  [l \in {labels} |-> Value(counter, labels) + 1]

\* inc that writes 1 instead of adding 1.
IncOverwrite(counter, labels) ==
  [l \in DOMAIN counter \cup {labels} |-> IF l = labels THEN 1 ELSE counter[l]]

\* Counter.inc(labels): the accumulator of labels is created on first use.
Inc(counter, labels) ==
  [l \in DOMAIN counter \cup {labels} |->
     IF l = labels THEN Value(counter, labels) + 1 ELSE counter[l]]

\* The bucket upper bounds of http_request_duration_seconds, in ms.
Buckets == {5, 10, 25, 50, 100, 250, 500, 1000, 2500, 5000, 10000}

EmptyHistogram == [count |-> 0, sum |-> 0, buckets |-> [b \in Buckets |-> 0]]

\* The bucket an observation is counted in: the smallest bound that holds it
\* (0: above every bound, counted in +Inf alone).
FindBound(value) ==
  IF \E b \in Buckets : value <= b
  THEN CHOOSE b \in Buckets : value <= b /\ \A c \in Buckets : value <= c => b <= c
  ELSE 0

Series(hist, labels) == IF labels \in DOMAIN hist THEN hist[labels] ELSE EmptyHistogram

\* An observation that is counted in every series of the histogram.
ObserveAll(hist, labels, value) ==
  [l \in DOMAIN hist \cup {labels} |->
     [count |-> Series(hist, l).count + 1,
      sum |-> Series(hist, l).sum + value,
      buckets |-> [b \in Buckets |->
                     Series(hist, l).buckets[b]
                       + (IF b = FindBound(value) THEN 1 ELSE 0)]]]

\* Histogram.observe(labels, value): one more observation, added to the sum.
Observe(hist, labels, value) ==
  [l \in DOMAIN hist \cup {labels} |->
     IF l = labels
     THEN [count |-> Series(hist, labels).count + 1,
           sum |-> Series(hist, labels).sum + value,
           buckets |-> [b \in Buckets |->
                          Series(hist, labels).buckets[b]
                            + (IF b = FindBound(value) THEN 1 ELSE 0)]]
     ELSE hist[l]]

\* ----------------------------------------------------------------- routes
NoRoute == [matched |-> FALSE, path |-> ""]

\* The paths registered with app.get; req.route of a request they match.
Routes == {"/", "/simulate-latency", "/simulate-error", "/metrics"}

MatchRoute(method, path) ==
  IF method = "GET" /\ path \in Routes THEN [matched |-> TRUE, path |-> path]
  ELSE NoRoute

\* A route label that folds every unmatched request into "unknown".
RouteLabelUnknown(req) ==
  IF req.route.matched /\ req.route.path # "" THEN req.route.path ELSE "unknown"

\* req.route && req.route.path ? req.route.path : req.path || "unknown"
RouteLabel(req) ==
  IF req.route.matched /\ req.route.path # "" THEN req.route.path
  ELSE IF req.path # "" THEN req.path
  ELSE "unknown"

\* The label set of the measurement taken when the response has finished.
Labels(req) ==
  [method |-> req.method, route |-> RouteLabel(req),
   status_code |-> String(req.statusCode)]

\* --------------------------------------------------------------- requests
\* What a client sends: the method, the path (req.path, "" when the request
\* target has none) and the characters of the one query parameter the
\* matched handler reads (ms or code; <<>> when absent).
RequestInputs ==
  {[method |-> "GET", path |-> "/", query |-> <<>>],
   [method |-> "GET", path |-> "/simulate-latency", query |-> <<>>],
   [method |-> "GET", path |-> "/simulate-latency", query |-> <<"2", "5", "0">>],
   [method |-> "GET", path |-> "/simulate-error", query |-> <<>>],
   [method |-> "GET", path |-> "/simulate-error", query |-> <<"4", "0", "4">>],
   [method |-> "GET", path |-> "/simulate-error", query |-> <<"5", "0", "3">>],
   [method |-> "GET", path |-> "/metrics", query |-> <<>>],
   [method |-> "POST", path |-> "/simulate-error", query |-> <<>>],
   [method |-> "GET", path |-> "", query |-> <<>>]}

\* A request that has not arrived.
NoRequest ==
  [pc |-> "idle", method |-> "", path |-> "", query |-> <<>>, route |-> NoRoute,
   span |-> NoSpan, start |-> 0, listening |-> FALSE, finishCtx |-> NoSpan,
   timerCtx |-> NoSpan, due |-> 0, statusCode |-> OkStatus, ended |-> FALSE,
   closed |-> FALSE, body |-> <<>>, outcome |-> "NONE"]

\* No call of the logger from outside the application is under way.
NoCall == [state |-> "none", level |-> "", message |-> "", meta |-> Omitted]

Init ==
  /\ requests = [r \in Reqs |-> NoRequest]
  /\ nextReq = 1
  /\ cur = 0
  /\ active = NoSpan
  /\ now = 0
  /\ httpRequestDuration = <<>>
  /\ httpRequestsTotal = <<>>
  /\ httpErrorsTotal = <<>>
  /\ sink = <<>>
  /\ sdk = "running"
  /\ termPc = "none"
  /\ console = <<>>
  /\ exitCode = <<>>
  /\ call = NoCall
  /\ env = NoEnv
  /\ exporterOptions = [loaded |-> TRUE, url |-> resolveTracesUrl(env)]

\* The process has not exited.
Alive == exitCode = <<>>

\* The event loop may start the next callback: nothing is on the stack and
\* no microtask of the SIGTERM handler's promise chain is queued.
Idle == Alive /\ cur = 0 /\ termPc \notin {"then", "catch", "finally"}

\* The synchronous segment of request r is running and stands at pc.
At(r, pc) == Alive /\ cur = r /\ requests[r].pc = pc

registry == <<httpRequestDuration, httpRequestsTotal, httpErrorsTotal>>
shutdown == <<sdk, termPc, console, exitCode, call>>

\* The http server takes a request: the auto-instrumentation opens the
\* request's span and runs the express application in its context.
Receive(r, in) ==
  /\ Idle
  /\ r = nextReq
  /\ r \in Reqs
  /\ requests' = [requests EXCEPT ![r] =
       [NoRequest EXCEPT !.pc = "received", !.method = in.method,
          !.path = in.path, !.query = in.query, !.span = r]]
  /\ nextReq' = nextReq + 1
  /\ cur' = r
  /\ active' = EnterContext(r)
  /\ UNCHANGED <<exporter, now, registry, sink, shutdown>>

\* app.use((req, res, next) => ...): take the start time, register the
\* "finish" listener (bound to the active context) and call next().
Middleware(r) ==
  /\ At(r, "received")
  /\ requests' = [requests EXCEPT ![r] =
       [@ EXCEPT !.pc = "dispatch", !.start = now, !.listening = TRUE,
          !.finishCtx = active]]
  /\ UNCHANGED <<exporter, nextReq, cur, active, now, registry, sink, shutdown>>

\* The router hands the request to the handler registered for path.
Routed(r, path) ==
  /\ At(r, "dispatch")
  /\ MatchRoute(requests[r].method, requests[r].path) = [matched |-> TRUE, path |-> path]

\* res.status(code).json(...) or .end(...): the response is complete; it is
\* written out unless the connection is gone. The callback returns, and the
\* root context is active again.
Respond(r, code, body) ==
  /\ requests' = [requests EXCEPT ![r] =
       [@ EXCEPT !.pc = "responded", !.statusCode = code, !.ended = TRUE,
          !.body = body,
          !.route = MatchRoute(requests[r].method, requests[r].path)]]
  /\ cur' = 0
  /\ active' = NoSpan

\* app.get("/")
HandleRoot(r) ==
  /\ Routed(r, "/")
  /\ Respond(r, OkStatus, <<>>)
  /\ UNCHANGED <<exporter, nextReq, now, registry, sink, shutdown>>

\* app.get("/simulate-latency"), up to its await: log, start the timer.
HandleLatency(r) ==
  /\ Routed(r, "/simulate-latency")
  /\ LET delay == ParseIntOr(requests[r].query, DefaultDelayMs)
     IN /\ sink' = Emit(sink, info("Simulating latency of " \o String(delay) \o "ms",
                                   Omitted))
        /\ requests' = [requests EXCEPT ![r] =
             [@ EXCEPT !.pc = "waiting", !.due = now + delay, !.timerCtx = active,
                !.route = MatchRoute(requests[r].method, requests[r].path)]]
  /\ cur' = 0
  /\ active' = NoSpan
  /\ UNCHANGED <<exporter, nextReq, now, registry, shutdown>>

\* A timer whose callback may run before its delay has elapsed.
TimerFireEarly(r) ==
  /\ Idle
  /\ requests[r].pc = "waiting"
  /\ requests' = [requests EXCEPT ![r].pc = "resumed"]
  /\ cur' = r
  /\ active' = EnterContext(requests[r].timerCtx)
  /\ UNCHANGED <<exporter, nextReq, now, registry, sink, shutdown>>

\* The timer of request r is due: its callback resolves the awaited promise
\* and the handler resumes in the context it was suspended in.
TimerFire(r) ==
  /\ Idle
  /\ requests[r].pc = "waiting"
  /\ now >= requests[r].due
  /\ requests' = [requests EXCEPT ![r].pc = "resumed"]
  /\ cur' = r
  /\ active' = EnterContext(requests[r].timerCtx)
  /\ UNCHANGED <<exporter, nextReq, now, registry, sink, shutdown>>

\* app.get("/simulate-latency"), after its await.
LatencyContinue(r) ==
  /\ At(r, "resumed")
  /\ Respond(r, OkStatus, <<>>)
  /\ UNCHANGED <<exporter, nextReq, now, registry, sink, shutdown>>

\* app.get("/simulate-error")
HandleError(r) ==
  /\ Routed(r, "/simulate-error")
  /\ LET code == ParseIntOr(requests[r].query, DefaultErrorCode)
     IN /\ sink' = Emit(sink, warn("Simulating error with code " \o String(code),
                                   Omitted))
        /\ Respond(r, code, <<>>)
  /\ UNCHANGED <<exporter, nextReq, now, registry, shutdown>>

\* A rendering that is computed once and served again to later scrapes.
RenderCached ==
  IF \E q \in Reqs : requests[q].body # <<>>
  THEN requests[CHOOSE q \in Reqs : requests[q].body # <<>>].body[1]
  ELSE [duration |-> httpRequestDuration, requests |-> httpRequestsTotal,
        errors |-> httpErrorsTotal]

\* client.register.metrics(): every series of the three metrics with its
\* current value (the exposition text, read back as values).
Render ==
  [duration |-> httpRequestDuration, requests |-> httpRequestsTotal,
   errors |-> httpErrorsTotal]

\* app.get("/metrics"): the body is the rendering of the registry; when
\* rendering fails the catch answers 500.
HandleMetrics(r) ==
  /\ Routed(r, "/metrics")
  /\ \/ Respond(r, OkStatus, <<Render>>)
     \/ Respond(r, ErrorThreshold, <<>>)
  /\ UNCHANGED <<exporter, nextReq, now, registry, sink, shutdown>>

\* No route matches: express' final handler answers 404.
NotFound(r) ==
  /\ At(r, "dispatch")
  /\ ~MatchRoute(requests[r].method, requests[r].path).matched
  /\ Respond(r, 404, <<>>)
  /\ UNCHANGED <<exporter, nextReq, now, registry, sink, shutdown>>

\* The client goes away while the handler is suspended: the socket is
\* destroyed. A response ended on a destroyed socket is never written out.
Abort(r) ==
  /\ Idle
  /\ requests[r].pc = "waiting"
  /\ ~requests[r].closed
  /\ requests' = [requests EXCEPT ![r].closed = TRUE]
  /\ UNCHANGED <<exporter, nextReq, cur, active, now, registry, sink, shutdown>>

\* The response has been written out: "finish" is emitted and the listener
\* runs in the context it was registered in.
EmitFinish(r) ==
  /\ Idle
  /\ requests[r].pc = "responded"
  /\ requests[r].listening
  /\ ~requests[r].closed
  /\ requests' = [requests EXCEPT ![r].pc = "finish"]
  /\ cur' = r
  /\ active' = EnterContext(requests[r].finishCtx)
  /\ UNCHANGED <<exporter, nextReq, now, registry, sink, shutdown>>

\* The comparison with > in place of >=.
IsErrorAbove(statusCode) == statusCode > ErrorThreshold

\* res.statusCode >= 500
IsError(statusCode) == statusCode >= ErrorThreshold

\* A terminal log call that is always made at info level.
TerminalLogInfo(req) ==
  info("Request processed: " \o req.method \o " " \o RouteLabel(req),
       Given([status_code |-> req.statusCode, route |-> RouteLabel(req)]))

\* The record of the terminal log call of the "finish" listener.
TerminalLog(req) ==
  LET meta == Given([status_code |-> req.statusCode, route |-> RouteLabel(req)])
  IN IF IsError(req.statusCode)
     THEN error("Request failed: " \o req.method \o " " \o RouteLabel(req), meta)
     ELSE info("Request processed: " \o req.method \o " " \o RouteLabel(req), meta)

\* An error counter incremented for every completed request.
CountErrorAlways(counter, req) == Inc(counter, Labels(req))

\* httpErrorsTotal after the listener: incremented for a status >= 500.
CountError(counter, req) ==
  IF IsError(req.statusCode) THEN Inc(counter, Labels(req)) ELSE counter

\* res.on("finish", () => ...)
OnFinish(r) ==
  /\ At(r, "finish")
  /\ LET req == requests[r]
         durationMs == now - req.start
     IN /\ httpRequestDuration' = Observe(httpRequestDuration, Labels(req), durationMs)
        /\ httpRequestsTotal' = Inc(httpRequestsTotal, Labels(req))
        /\ httpErrorsTotal' = CountError(httpErrorsTotal, req)
        /\ sink' = Emit(sink, TerminalLog(req))
        /\ requests' = [requests EXCEPT ![r] =
             [@ EXCEPT !.pc = "finished",
                !.outcome = IF IsError(req.statusCode) THEN "COMPLETED_ERROR"
                            ELSE "COMPLETED_OK"]]
  /\ cur' = 0
  /\ active' = NoSpan
  /\ UNCHANGED <<exporter, nextReq, now, shutdown>>

\* Time passes between callbacks; the clock is followed while a timer is
\* pending.
Tick ==
  /\ Idle
  /\ \E r \in Reqs : requests[r].pc = "waiting" /\ requests[r].due > now
  /\ now' = now + TickMs
  /\ UNCHANGED <<exporter, requests, nextReq, cur, active, registry, sink, shutdown>>

\* --------------------------------------------------------------- shutdown
\* A handler that starts the flush and exits without waiting for it.
SigtermExitAtOnce ==
  /\ Idle
  /\ termPc = "none"
  /\ sdk' = "pending"
  /\ termPc' = "exited"
  /\ exitCode' = <<ExitOk>>
  /\ UNCHANGED <<exporter, requests, nextReq, cur, active, now, registry, sink, console, call>>

\* process.on("SIGTERM", ...): sdk.shutdown() starts the flush.
Sigterm ==
  /\ Idle
  /\ termPc = "none"
  /\ sdk' = "pending"
  /\ termPc' = "flushing"
  /\ UNCHANGED <<exporter, requests, nextReq, cur, active, now, registry, sink, console, exitCode, call>>

\* The flush settles: fulfilled, rejected, or never (the export stalls).
FlushSettle(outcome) ==
  /\ Idle
  /\ termPc = "flushing"
  /\ sdk = "pending"
  /\ sdk' = outcome
  /\ termPc' = CASE outcome = "fulfilled" -> "then"
                 [] outcome = "rejected" -> "catch"
                 [] outcome = "stalled" -> "flushing"
  /\ UNCHANGED <<exporter, requests, nextReq, cur, active, now, registry, sink, console, exitCode, call>>

\* .then(() => console.log("Tracing terminated"))
ThenLog ==
  /\ Alive
  /\ termPc = "then"
  /\ console' = Append(console, "Tracing terminated")
  /\ termPc' = "finally"
  /\ UNCHANGED <<exporter, requests, nextReq, cur, active, now, registry, sink, sdk, exitCode, call>>

\* .catch((error) => console.log("Error terminating tracing", error))
CatchLog ==
  /\ Alive
  /\ termPc = "catch"
  /\ console' = Append(console, "Error terminating tracing")
  /\ termPc' = "finally"
  /\ UNCHANGED <<exporter, requests, nextReq, cur, active, now, registry, sink, sdk, exitCode, call>>

\* .finally(() => process.exit(0))
FinallyExit ==
  /\ Alive
  /\ termPc = "finally"
  /\ exitCode' = <<ExitOk>>
  /\ termPc' = "exited"
  /\ UNCHANGED <<exporter, requests, nextReq, cur, active, now, registry, sink, sdk, console, call>>

Next ==
  \/ \E r \in Reqs, in \in RequestInputs : Receive(r, in)
  \/ \E r \in Reqs : Middleware(r)
  \/ \E r \in Reqs : HandleRoot(r)
  \/ \E r \in Reqs : HandleLatency(r)
  \/ \E r \in Reqs : TimerFire(r)
  \/ \E r \in Reqs : LatencyContinue(r)
  \/ \E r \in Reqs : HandleError(r)
  \/ \E r \in Reqs : HandleMetrics(r)
  \/ \E r \in Reqs : NotFound(r)
  \/ \E r \in Reqs : Abort(r)
  \/ \E r \in Reqs : EmitFinish(r)
  \/ \E r \in Reqs : OnFinish(r)
  \/ Tick
  \/ Sigterm
  \/ \E outcome \in {"fulfilled", "rejected", "stalled"} : FlushSettle(outcome)
  \/ ThenLog
  \/ CatchLog
  \/ FinallyExit

Spec == Init /\ [][Next]_vars

\* The callbacks the event loop runs once they are ready; arrivals, client
\* disconnects and signals are the environment's and may never happen.
Fairness ==
  /\ \A r \in Reqs :
       /\ WF_vars(Middleware(r))
       /\ WF_vars(HandleRoot(r))
       /\ WF_vars(HandleLatency(r))
       /\ WF_vars(TimerFire(r))
       /\ WF_vars(LatencyContinue(r))
       /\ WF_vars(HandleError(r))
       /\ WF_vars(HandleMetrics(r))
       /\ WF_vars(NotFound(r))
       /\ WF_vars(EmitFinish(r))
       /\ WF_vars(OnFinish(r))
  /\ WF_vars(Tick)
  /\ WF_vars(\E outcome \in {"fulfilled", "rejected", "stalled"} : FlushSettle(outcome))
  /\ WF_vars(ThenLog)
  /\ WF_vars(CatchLog)
  /\ WF_vars(FinallyExit)

FairSpec == Spec /\ Fairness

\* ------------------------------------------ a failing instrumentation call
\* The calls the "finish" listener makes, in the order it makes them.
ListenerCalls == <<"observe", "inc", "errorsInc", "log">>

\* The listener makes the call numbered i for this request (the error
\* counter only for a status >= 500).
Makes(req, i) == ListenerCalls[i] = "errorsInc" => IsError(req.statusCode)

\* res.on("finish", () => ...) when the call numbered i raises: the calls
\* before it have taken effect, the listener has no try/catch and neither
\* has the emitter, so the exception is uncaught and ends the process.
OnFinishThrows(r, i) ==
  /\ At(r, "finish")
  /\ i \in DOMAIN ListenerCalls
  /\ LET req == requests[r]
         durationMs == now - req.start
     IN /\ Makes(req, i)
        /\ httpRequestDuration' =
             IF i > 1 THEN Observe(httpRequestDuration, Labels(req), durationMs)
             ELSE httpRequestDuration
        /\ httpRequestsTotal' =
             IF i > 2 THEN Inc(httpRequestsTotal, Labels(req)) ELSE httpRequestsTotal
        /\ httpErrorsTotal' =
             IF i > 3 THEN CountError(httpErrorsTotal, req) ELSE httpErrorsTotal
        /\ requests' = [requests EXCEPT ![r].pc = "threw"]
  /\ exitCode' = <<1>>
  /\ UNCHANGED <<exporter, nextReq, cur, active, now, sink, sdk, termPc, console, call>>

FaultNext ==
  \/ Next
  \/ \E r \in Reqs, i \in DOMAIN ListenerCalls : OnFinishThrows(r, i)

FaultSpec == Init /\ [][FaultNext]_vars

\* ------------------------------------------------- the logger on its own
\* The logger is an exported module: a caller passes any level and metadata,
\* inside a request (a span is active) or outside one (none is).
Levels == {"debug", "info", "warn", "error"}

MetaArgs ==
  {Omitted, Null, Given(EmptyObject), Given([user |-> "u1"]),
   Given([status_code |-> OkStatus, route |-> "/"]),
   Given([trace_id |-> <<"trace", 0>>, user |-> "u1"])}

LogInit ==
  /\ requests = [r \in Reqs |-> NoRequest]
  /\ nextReq = 1
  /\ cur = 0
  /\ active \in {NoSpan} \cup Reqs
  /\ now = 0
  /\ httpRequestDuration = <<>>
  /\ httpRequestsTotal = <<>>
  /\ httpErrorsTotal = <<>>
  /\ sink = <<>>
  /\ sdk = "running"
  /\ termPc = "none"
  /\ console = <<>>
  /\ exitCode = <<>>
  /\ call \in {[state |-> "pending", level |-> l, message |-> "message", meta |-> m] :
                 l \in Levels, m \in MetaArgs}
  /\ env = NoEnv
  /\ exporterOptions = [loaded |-> TRUE, url |-> resolveTracesUrl(env)]

\* module.exports.info / error / warn / debug called with the pending
\* arguments.
LogApply ==
  /\ call.state = "pending"
  /\ LET rec == log(call.level, call.message, call.meta)
     IN /\ sink' = Emit(sink, rec)
        /\ call' = [call EXCEPT !.state = IF rec.threw THEN "threw" ELSE "returned"]
  /\ UNCHANGED <<exporter, requests, nextReq, cur, active, now, registry, sdk, termPc, console,
                 exitCode>>

LogSpec == LogInit /\ [][LogApply]_vars

\* ------------------------------------------- the tracing bootstrap alone
\* The values an endpoint variable is given: unset, empty, a base address
\* with no, one or two trailing slashes, and a traces address with no, one or
\* two trailing slashes.
EndpointValues(host) ==
  LET base == <<"http:", "/", "/", host>>
  IN {Unset, Var(<<>>), Var(base), Var(base \o <<"/">>), Var(base \o <<"/", "/">>),
      Var(base \o V1Traces), Var(base \o V1Traces \o <<"/">>),
      Var(base \o V1Traces \o <<"/", "/">>)}

UrlInit ==
  /\ requests = [r \in Reqs |-> NoRequest]
  /\ nextReq = 1
  /\ cur = 0
  /\ active = NoSpan
  /\ now = 0
  /\ httpRequestDuration = <<>>
  /\ httpRequestsTotal = <<>>
  /\ httpErrorsTotal = <<>>
  /\ sink = <<>>
  /\ sdk = "running"
  /\ termPc = "none"
  /\ console = <<>>
  /\ exitCode = <<>>
  /\ call = NoCall
  /\ env \in [OTEL_EXPORTER_OTLP_TRACES_ENDPOINT : EndpointValues("collector:4318"),
              OTEL_EXPORTER_OTLP_ENDPOINT : EndpointValues("otel:4318")]
  /\ exporterOptions = NoOptions

\* const exporterOptions = { url: resolveTracesUrl() }
LoadOtel ==
  /\ ~exporterOptions.loaded
  /\ exporterOptions' = [loaded |-> TRUE, url |-> resolveTracesUrl(env)]
  /\ UNCHANGED <<requests, nextReq, cur, active, now, registry, sink, shutdown, env>>

\* The process is started again with the resolved address as the traces
\* endpoint.
Reconfigure ==
  /\ exporterOptions.loaded
  /\ env' = [env EXCEPT !.OTEL_EXPORTER_OTLP_TRACES_ENDPOINT = Var(exporterOptions.url)]
  /\ exporterOptions' = [loaded |-> TRUE, url |-> resolveTracesUrl(env')]
  /\ UNCHANGED <<requests, nextReq, cur, active, now, registry, sink, shutdown>>

UrlNext == LoadOtel \/ Reconfigure

UrlSpec == UrlInit /\ [][UrlNext]_vars

\* ================================================================ claims
\* The step in which the "finish" listener of request r runs.
FinishStep(r) == requests[r].pc = "finish" /\ requests'[r].pc = "finished"

\* Nothing more will run for request r: its handler has ended the response
\* and either the listener has run or the connection is gone.
Over(r) ==
  \/ requests[r].pc = "finished"
  \/ requests[r].pc = "responded" /\ requests[r].closed

\* The label sets that occur in the registry or belong to an arrived request.
AllLabels ==
  DOMAIN httpRequestDuration \cup DOMAIN httpRequestsTotal \cup DOMAIN httpErrorsTotal
    \cup {Labels(requests[r]) : r \in {q \in Reqs : requests[q].pc # "idle"}}

\* Every label set but labels has the same value in c and d.
SameElsewhere(c, d, labels) ==
  \A k \in (DOMAIN c \cup DOMAIN d) \ {labels} : Value(c, k) = Value(d, k)

SameSeriesElsewhere(h, g, labels) ==
  \A k \in (DOMAIN h \cup DOMAIN g) \ {labels} : Series(h, k) = Series(g, k)

\* The lines of the sink that are terminal log lines (they carry the
\* status code) and carry the identifiers of the span of request r.
TerminalLines(r) ==
  {i \in 1..Len(sink) :
     /\ DOMAIN sink[i].meta = {"trace_id", "span_id", "status_code", "route"}
     /\ sink[i].meta.trace_id = SpanContext(r).traceId
     /\ sink[i].meta.span_id = SpanContext(r).spanId}

\* C1: every request that entered the middleware reaches its terminal
\* transition on every exit path: once nothing more will run for a request
\* (response finished, or client gone and handler done), its duration has
\* been observed and http_requests_total incremented.
C1_EveryExitPathMeasured ==
  \A r \in Reqs :
    Over(r) =>
      /\ requests[r].outcome # "NONE"
      /\ Series(httpRequestDuration, Labels(requests[r])).count >= 1
      /\ Value(httpRequestsTotal, Labels(requests[r])) >= 1

\* C2: when the completion hook of a request fires, the histogram gets
\* exactly one observation and http_requests_total exactly one increment at
\* one label set {method, route, status_code} of that request;
\* http_errors_total gets one increment at that label set if the status code
\* is >= 500 and none otherwise; the hook fires at most once per request and
\* no other step changes the three metrics.
C2_TerminalTransitionOnce ==
  [][/\ \A r \in Reqs :
          /\ FinishStep(r) =>
               \E labels \in DOMAIN httpRequestsTotal' :
                 /\ DOMAIN labels = {"method", "route", "status_code"}
                 /\ labels.method = requests[r].method
                 /\ labels.status_code = String(requests[r].statusCode)
                 /\ Series(httpRequestDuration', labels).count
                      = Series(httpRequestDuration, labels).count + 1
                 /\ Value(httpRequestsTotal', labels)
                      = Value(httpRequestsTotal, labels) + 1
                 /\ Value(httpErrorsTotal', labels)
                      = Value(httpErrorsTotal, labels)
                          + (IF requests[r].statusCode >= 500 THEN 1 ELSE 0)
                 /\ SameSeriesElsewhere(httpRequestDuration, httpRequestDuration', labels)
                 /\ SameElsewhere(httpRequestsTotal, httpRequestsTotal', labels)
                 /\ SameElsewhere(httpErrorsTotal, httpErrorsTotal', labels)
          /\ requests[r].pc = "finished" => requests'[r].pc = "finished"
     /\ (\A r \in Reqs : ~FinishStep(r)) => UNCHANGED registry]_vars

C2_Witness ==
  \E r, q \in Reqs :
    /\ requests[r].pc = "finished" /\ requests[r].statusCode >= 500
    /\ Value(httpErrorsTotal, Labels(requests[r])) = 1
    /\ requests[q].pc = "finished" /\ requests[q].statusCode < 500
    /\ Value(httpRequestsTotal, Labels(requests[q])) = 1
    /\ Value(httpErrorsTotal, Labels(requests[q])) = 0

\* C3: for any request processed through the middleware exactly one
\* terminal log line is emitted, and it carries the trace_id and span_id of
\* the span opened for that request.
C3_OneCorrelatedTerminalLog ==
  \A r \in Reqs : Over(r) => Cardinality(TerminalLines(r)) = 1

\* C4: while a callback of request A runs, the active span is never the
\* span of another request B, and a record A's callback writes never
\* carries B's trace_id or span_id.
C4_NoCrossRequestSpan ==
  [][\A a \in Reqs : \A b \in Reqs \ {a} :
       cur = a =>
         /\ active # requests[b].span \/ requests[b].span = NoSpan
         /\ Len(sink') > Len(sink) =>
              /\ sink'[Len(sink')].meta.trace_id # SpanContext(b).traceId
              /\ sink'[Len(sink')].meta.span_id # SpanContext(b).spanId]_vars

\* Request 1 resumes after its await and then runs its completion callback
\* while request 2, which arrived later, is still suspended.
C4_Witness ==
  /\ cur = 1
  /\ requests[1].pc = "finish"
  /\ requests[1].route.path = "/simulate-latency"
  /\ requests[2].pc = "waiting"
  /\ active = requests[1].span
  /\ Len(sink) = 2

\* C5: for every label set the value of http_requests_total, the count of
\* the histogram and (for a status >= 500) the value of http_errors_total
\* equal the number of requests that completed with that label set.
C5_NoLostUpdates ==
  \A labels \in AllLabels :
    LET done == {r \in Reqs : requests[r].pc = "finished"
                                /\ Labels(requests[r]) = labels}
    IN /\ Value(httpRequestsTotal, labels) = Cardinality(done)
       /\ Series(httpRequestDuration, labels).count = Cardinality(done)
       /\ Value(httpErrorsTotal, labels)
            = Cardinality({r \in done : requests[r].statusCode >= 500})

\* Two requests in flight together completed with one label set (status
\* 500), the later arrival first.
C5_Witness ==
  /\ \A r \in {1, 2} : requests[r].pc = "finished" /\ requests[r].statusCode = 500
  /\ Labels(requests[1]) = Labels(requests[2])
  /\ Value(httpErrorsTotal, Labels(requests[1])) = 2
  /\ Series(httpRequestDuration, Labels(requests[1])).count = 2
  /\ Len(sink) = 4
  /\ sink[3].meta.trace_id = SpanContext(2).traceId
  /\ sink[4].meta.trace_id = SpanContext(1).traceId

\* C6: the terminal state and the level of the terminal log follow from the
\* final status code alone: >= 500 gives COMPLETED_ERROR and a warn/error
\* line, anything below 500 (4xx included) gives COMPLETED_OK and an info
\* line; a terminal state is never left.
C6_OutcomeByStatus ==
  [][\A r \in Reqs :
       /\ (requests[r].outcome = "NONE" /\ requests'[r].outcome # "NONE") =>
            /\ Len(sink') = Len(sink) + 1
            /\ sink'[Len(sink')].meta.status_code = requests[r].statusCode
            /\ IF requests[r].statusCode >= 500
               THEN /\ requests'[r].outcome = "COMPLETED_ERROR"
                    /\ sink'[Len(sink')].level \in {"warn", "error"}
               ELSE /\ requests'[r].outcome = "COMPLETED_OK"
                    /\ sink'[Len(sink')].level = "info"
       /\ requests[r].outcome # "NONE" =>
            /\ requests'[r].outcome = requests[r].outcome
            /\ requests'[r].statusCode = requests[r].statusCode
            /\ requests'[r].pc = "finished"]_vars

\* One request ended in COMPLETED_ERROR with an error line, another with a
\* 4xx status in COMPLETED_OK with an info line.
C6_Witness ==
  \E r, q \in Reqs :
    /\ requests[r].outcome = "COMPLETED_ERROR" /\ requests[r].statusCode = 500
    /\ requests[q].outcome = "COMPLETED_OK" /\ requests[q].statusCode = 404
    /\ \E i, j \in TerminalLines(r) \cup TerminalLines(q) :
         sink[i].level = "error" /\ sink[j].level = "info"

\* C7: the route label of a measurement is the matched route pattern if a
\* route matched, else the raw request path, else "unknown" when the path is
\* absent; an unmatched request is measured under its raw path.
C7_RouteLabelFallback ==
  [][\A r \in Reqs :
       FinishStep(r) =>
         \E labels \in DOMAIN httpRequestsTotal' :
           /\ Value(httpRequestsTotal', labels) = Value(httpRequestsTotal, labels) + 1
           /\ Series(httpRequestDuration', labels).count
                = Series(httpRequestDuration, labels).count + 1
           /\ labels.route =
                IF requests[r].route.matched THEN requests[r].route.path
                ELSE IF requests[r].path # "" THEN requests[r].path
                ELSE "unknown"]_vars

\* An unmatched request (POST to a GET-only path) and a request without a
\* path have both been measured, under the raw path and under "unknown".
C7_Witness ==
  /\ Value(httpRequestsTotal,
           [method |-> "POST", route |-> "/simulate-error", status_code |-> "404"]) = 1
  /\ Value(httpRequestsTotal,
           [method |-> "GET", route |-> "unknown", status_code |-> "404"]) = 1
  /\ \E r \in Reqs : requests[r].pc = "finished" /\ ~requests[r].route.matched
                       /\ requests[r].path = "/simulate-error"

\* C8: after SIGTERM the process always reaches its exit, also when the
\* flush never completes.
C8_ExitDespiteStalledFlush == (termPc = "flushing") ~> (exitCode # <<>>)

\* C9: the process exits through the SIGTERM handler only after the flush
\* has settled; fulfilled or rejected, one message has been logged and the
\* exit code is 0.
C9_FlushBeforeExit ==
  exitCode # <<>> =>
    /\ sdk \in {"fulfilled", "rejected"}
    /\ exitCode = <<0>>
    /\ Len(console) = 1
    /\ sdk = "fulfilled" => console[1] = "Tracing terminated"
    /\ sdk = "rejected" => console[1] = "Error terminating tracing"

\* The process has exited with code 0 after a flush that failed.
C9_Witness ==
  /\ exitCode = <<0>>
  /\ sdk = "rejected"
  /\ console = <<"Error terminating tracing">>

\* C10: a call of log with an active span writes a record holding that
\* span's trace_id and span_id merged into the caller's metadata; without an
\* active span the metadata is written unchanged, no identifier is added and
\* the call does not throw, also when the metadata is left out.
C10_LogMergesSpanIds ==
  call.state \in {"returned", "threw"} =>
    LET written == call.level \in {"info", "warn", "error"}
        meta == call.meta.value
    IN /\ active = NoSpan =>
            /\ call.state = "returned"
            /\ written =>
                 /\ Len(sink) = 1
                 /\ sink[1].level = call.level
                 /\ sink[1].message = call.message
                 /\ sink[1].meta = meta
       /\ (active # NoSpan /\ call.state = "returned" /\ written) =>
            /\ Len(sink) = 1
            /\ sink[1].level = call.level
            /\ sink[1].message = call.message
            /\ DOMAIN sink[1].meta = DOMAIN meta \cup {"trace_id", "span_id"}
            /\ sink[1].meta.trace_id = SpanContext(active).traceId
            /\ sink[1].meta.span_id = SpanContext(active).spanId
            /\ \A k \in DOMAIN meta \ {"trace_id", "span_id"} : sink[1].meta[k] = meta[k]

\* A call that leaves the metadata out, made while no span is active, has
\* returned and its record has been written.
C10_Witness ==
  /\ call.state = "returned"
  /\ active = NoSpan
  /\ call.meta = Omitted
  /\ call.level = "warn"
  /\ Len(sink) = 1
  /\ sink[1].meta = EmptyObject

\* The step in which the /metrics handler of request r renders the registry.
ScrapeStep(r) ==
  /\ requests[r].pc = "dispatch"
  /\ requests'[r].pc = "responded"
  /\ requests'[r].body # <<>>

\* The requests whose completion callback has run, with label set labels.
Completed(labels) ==
  {q \in Reqs : requests[q].pc = "finished" /\ Labels(requests[q]) = labels}

\* C11: a /metrics render holds, for every label set, every increment and
\* observation made by the completion callbacks that ran before it (the
\* number of requests completed so far), and no series of it is below its
\* value in an earlier render.
C11_ScrapeReflectsState ==
  [][\A r \in Reqs :
       ScrapeStep(r) =>
         LET out == requests'[r].body[1]
         IN /\ \A labels \in AllLabels \cup DOMAIN out.requests
                      \cup DOMAIN out.errors \cup DOMAIN out.duration :
                 /\ Value(out.requests, labels) = Cardinality(Completed(labels))
                 /\ Series(out.duration, labels).count = Cardinality(Completed(labels))
                 /\ Value(out.errors, labels)
                      = Cardinality({q \in Completed(labels) :
                                       requests[q].statusCode >= 500})
            /\ \A q \in Reqs \ {r} :
                 requests[q].body # <<>> =>
                   LET before == requests[q].body[1]
                   IN /\ \A k \in DOMAIN before.requests :
                           before.requests[k] <= Value(out.requests, k)
                      /\ \A k \in DOMAIN before.errors :
                           before.errors[k] <= Value(out.errors, k)
                      /\ \A k \in DOMAIN before.duration :
                           before.duration[k].count <= Series(out.duration, k).count]_vars

\* Two scrapes: the first saw no request, the second holds the first
\* scrape's own completed request.
C11_Witness ==
  /\ requests[1].body # <<>>
  /\ requests[2].body # <<>>
  /\ requests[1].body[1].requests = <<>>
  /\ Value(requests[2].body[1].requests,
           [method |-> "GET", route |-> "/metrics", status_code |-> "200"]) = 1

\* C12: when a metric call or the terminal log call raises inside the
\* "finish" listener, the response already produced is unaffected, the
\* failure is logged at error level and the process keeps serving.
C12_InstrumentationFailureContained ==
  \A r \in Reqs :
    requests[r].pc = "threw" =>
      /\ requests[r].ended
      /\ Alive
      /\ \E i \in DOMAIN sink :
           /\ sink[i].level = "error"
           /\ "trace_id" \in DOMAIN sink[i].meta
           /\ sink[i].meta.trace_id = SpanContext(requests[r].span).traceId

\* The lines of the sink with this level and message that carry the trace
\* identifier of the span of request r.
LinesOf(r, level, message) ==
  {i \in 1..Len(sink) :
     /\ sink[i].level = level
     /\ sink[i].message = message
     /\ "trace_id" \in DOMAIN sink[i].meta
     /\ sink[i].meta.trace_id = SpanContext(r).traceId}

\* The status code asked for by the query of a /simulate-error request, as
\* text (no code asked for: 500).
AskedCode(query) ==
  CASE query = <<>> -> "500"
    [] query = <<"5", "0", "3">> -> "503"
    [] query = <<"4", "0", "4">> -> "404"

\* C13: the completion of a GET /simulate-error answered with a code >= 500
\* adds exactly 1 to http_requests_total and exactly 1 to http_errors_total,
\* both at {GET, /simulate-error, the code as text}, and the handler has
\* written a warn line naming the code.
C13_SimulateErrorCounted ==
  [][\A r \in Reqs :
       (/\ FinishStep(r)
        /\ requests[r].method = "GET"
        /\ requests[r].path = "/simulate-error"
        /\ requests[r].statusCode >= 500) =>
         LET labels == [method |-> "GET", route |-> "/simulate-error",
                        status_code |-> AskedCode(requests[r].query)]
         IN /\ labels \in DOMAIN httpRequestsTotal'
            /\ httpRequestsTotal'[labels] = Value(httpRequestsTotal, labels) + 1
            /\ labels \in DOMAIN httpErrorsTotal'
            /\ httpErrorsTotal'[labels] = Value(httpErrorsTotal, labels) + 1
            /\ SameElsewhere(httpRequestsTotal, httpRequestsTotal', labels)
            /\ SameElsewhere(httpErrorsTotal, httpErrorsTotal', labels)
            /\ LinesOf(r, "warn", "Simulating error with code "
                                     \o AskedCode(requests[r].query)) # {}]_vars

\* A request for code 503 and one for the default code have completed.
C13_Witness ==
  /\ \A r \in Reqs : requests[r].pc = "finished" /\ requests[r].path = "/simulate-error"
  /\ requests[1].query = <<"5", "0", "3">>
  /\ requests[2].query = <<>>
  /\ Value(httpErrorsTotal, [method |-> "GET", route |-> "/simulate-error",
                             status_code |-> "503"]) = 1
  /\ Value(httpRequestsTotal, [method |-> "GET", route |-> "/simulate-error",
                               status_code |-> "500"]) = 1

\* The delay asked for by the query of a /simulate-latency request, in ms
\* (none asked for: 500).
AskedDelay(query) ==
  CASE query = <<>> -> 500
    [] query = <<"2", "5", "0">> -> 250

AskedDelayText(query) ==
  CASE query = <<>> -> "500"
    [] query = <<"2", "5", "0">> -> "250"

LatencyRequest(r) ==
  requests[r].method = "GET" /\ requests[r].path = "/simulate-latency"

\* C14: a GET /simulate-latency with delay d is not measured before d has
\* elapsed: its completion adds one observation at {GET, /simulate-latency,
\* 200} with a duration of at least d, and the info line naming the delay,
\* with the request's trace_id, is in the sink before the response is
\* produced.
C14_LatencyMeasuredAfterDelay ==
  [][\A r \in Reqs :
       LatencyRequest(r) =>
         LET labels == [method |-> "GET", route |-> "/simulate-latency",
                        status_code |-> "200"]
             d == AskedDelay(requests[r].query)
         IN /\ FinishStep(r) =>
                 /\ Series(httpRequestDuration', labels).count
                      = Series(httpRequestDuration, labels).count + 1
                 /\ Series(httpRequestDuration', labels).sum
                      >= Series(httpRequestDuration, labels).sum + d
                 /\ SameSeriesElsewhere(httpRequestDuration, httpRequestDuration',
                                        labels)
            /\ (~requests[r].ended /\ requests'[r].ended) =>
                 /\ now >= requests[r].start + d
                 /\ LinesOf(r, "info", "Simulating latency of "
                                  \o AskedDelayText(requests[r].query) \o "ms") # {}]_vars

\* A request with the default delay has been measured, with 500 ms or more.
C14_Witness ==
  \E r \in Reqs :
    /\ LatencyRequest(r)
    /\ requests[r].query = <<>>
    /\ requests[r].pc = "finished"
    /\ Series(httpRequestDuration, [method |-> "GET", route |-> "/simulate-latency",
                                    status_code |-> "200"]).count = 1
    /\ Series(httpRequestDuration, [method |-> "GET", route |-> "/simulate-latency",
                                    status_code |-> "200"]).sum >= 500

\* The value the resolution starts from: the traces endpoint when set and
\* not empty, else the base endpoint when set and not empty, else the
\* default.
Configured ==
  LET t == env.OTEL_EXPORTER_OTLP_TRACES_ENDPOINT
      b == env.OTEL_EXPORTER_OTLP_ENDPOINT
  IN CASE t.set /\ t.value # <<>> -> t.value
       [] ~(t.set /\ t.value # <<>>) /\ b.set /\ b.value # <<>> -> b.value
       [] OTHER -> <<"http:", "/", "/", "jaeger:4318">>

\* url is base without its trailing slashes, followed by /v1/traces.
Appended(base, url) ==
  \E n \in 0..Len(base) :
    /\ \A i \in (n + 1)..Len(base) : base[i] = "/"
    /\ n > 0 => base[n] # "/"
    /\ url = SubSeq(base, 1, n) \o <<"/", "v1", "/", "traces">>

\* The clauses of C15 other than the ending of the resolved address.
ResolvedAsStated ==
  LET url == exporterOptions.url
      kept == \/ EndsWith(Configured, <<"/", "v1", "/", "traces">>)
              \/ EndsWith(Configured, <<"/", "v1", "/", "traces", "/">>)
  IN /\ kept => url = Configured
     /\ ~kept => Appended(Configured, url)
     /\ resolveTracesUrl([OTEL_EXPORTER_OTLP_TRACES_ENDPOINT |-> Var(url),
                          OTEL_EXPORTER_OTLP_ENDPOINT |-> Unset]) = url

\* C15 as stated: the resolved trace-export address always ends in
\* /v1/traces; a value ending in /v1/traces (optionally followed by one
\* slash) is kept, any other has its trailing slashes removed and /v1/traces
\* appended; resolving a resolved address changes nothing; the traces
\* endpoint takes precedence over the base endpoint and that over the
\* default.
C15_AlwaysEndsInV1Traces ==
  exporterOptions.loaded =>
    /\ EndsWith(exporterOptions.url, <<"/", "v1", "/", "traces">>)
    /\ ResolvedAsStated

\* C15, amended: the resolved address ends in /v1/traces optionally followed
\* by one slash (a kept value keeps its slash); the other clauses as stated.
C15_EndsInV1TracesOrSlash ==
  exporterOptions.loaded =>
    /\ \/ EndsWith(exporterOptions.url, <<"/", "v1", "/", "traces">>)
       \/ EndsWith(exporterOptions.url, <<"/", "v1", "/", "traces", "/">>)
    /\ ResolvedAsStated

\* The traces endpoint ends in /v1/traces/ and is kept with its slash, with
\* a base endpoint set as well.
C15_Witness ==
  /\ exporterOptions.loaded
  /\ env.OTEL_EXPORTER_OTLP_ENDPOINT.set
  /\ env.OTEL_EXPORTER_OTLP_ENDPOINT.value # <<>>
  /\ exporterOptions.url
       = <<"http:", "/", "/", "collector:4318", "/", "v1", "/", "traces", "/">>

\* C16: the counters never go down and no accumulator is reset or removed:
\* across every step, every label set of http_requests_total,
\* http_errors_total and of the histogram is still there, with a value (for
\* the histogram: count, sum and every bucket) not below the one it had.
C16_CountersMonotonic ==
  [][/\ \A k \in DOMAIN httpRequestsTotal :
          k \in DOMAIN httpRequestsTotal' /\ httpRequestsTotal'[k] >= httpRequestsTotal[k]
     /\ \A k \in DOMAIN httpErrorsTotal :
          k \in DOMAIN httpErrorsTotal' /\ httpErrorsTotal'[k] >= httpErrorsTotal[k]
     /\ \A k \in DOMAIN httpRequestDuration :
          /\ k \in DOMAIN httpRequestDuration'
          /\ httpRequestDuration'[k].count >= httpRequestDuration[k].count
          /\ httpRequestDuration'[k].sum >= httpRequestDuration[k].sum
          /\ \A b \in Buckets :
               httpRequestDuration'[k].buckets[b] >= httpRequestDuration[k].buckets[b]]_vars

\* Two label sets hold a count, one of them after an earlier one was
\* created, and a process exit has not cleared them.
C16_Witness ==
  /\ Cardinality(DOMAIN httpRequestsTotal) = 2
  /\ Cardinality(DOMAIN httpErrorsTotal) = 1
  /\ Cardinality(DOMAIN httpRequestDuration) = 2
  /\ exitCode # <<>>

\* C17 as stated: every call of the logger at debug, info, warn or error
\* writes exactly one record to the sink during the call, with the level of
\* the call.
C17_EveryCallEmitsOne ==
  call.state \in {"returned", "threw"} =>
    /\ Len(sink) = 1
    /\ sink[1].level = call.level

\* C17, amended: a call at info, warn or error that returns writes exactly
\* one record with its level; a debug call hands its record over unfiltered
\* but writes none, the logger being created with level "info"; the only
\* call that does not return is one with null metadata under an active
\* span, and it writes nothing.
C17_EmitsOneWhenEnabled ==
  call.state \in {"returned", "threw"} =>
    /\ call.state = "threw" <=> (call.meta = Null /\ active # NoSpan)
    /\ call.state = "threw" => sink = <<>>
    /\ call.state = "returned" =>
         /\ log(call.level, call.message, call.meta).level = call.level
         /\ call.level = "debug" => sink = <<>>
         /\ call.level \in {"info", "warn", "error"} =>
              /\ Len(sink) = 1
              /\ sink[1].level = call.level
              /\ sink[1].message = call.message

\* A debug call made under an active span has returned and nothing was
\* written.
C17_Witness ==
  /\ call.state = "returned"
  /\ call.level = "debug"
  /\ active # NoSpan
  /\ call.meta = Given([user |-> "u1"])
  /\ sink = <<>>

\* The label sets whose value differs between the counters c and d, and
\* whose series differs between the histograms h and g.
Changed(c, d) == {k \in DOMAIN c \cup DOMAIN d : Value(c, k) # Value(d, k)}
ChangedSeries(h, g) == {k \in DOMAIN h \cup DOMAIN g : Series(h, k) # Series(g, k)}

\* C18: the completion of a request with label set L changes the
\* accumulators of L and no other: of the histogram and of
\* http_requests_total always, of http_errors_total only for a status
\* >= 500 (below 500 that metric is left as it was, no accumulator
\* created); every other label set of every metric keeps its value, and no
\* accumulator other than L's is created.
C18_OnlyOwnAccumulators ==
  [][\A r \in Reqs :
       FinishStep(r) =>
         LET L == Labels(requests[r])
         IN /\ ChangedSeries(httpRequestDuration, httpRequestDuration') = {L}
            /\ Changed(httpRequestsTotal, httpRequestsTotal') = {L}
            /\ DOMAIN httpRequestDuration' = DOMAIN httpRequestDuration \cup {L}
            /\ DOMAIN httpRequestsTotal' = DOMAIN httpRequestsTotal \cup {L}
            /\ requests[r].statusCode >= 500 =>
                 /\ Changed(httpErrorsTotal, httpErrorsTotal') = {L}
                 /\ DOMAIN httpErrorsTotal' = DOMAIN httpErrorsTotal \cup {L}
            /\ requests[r].statusCode < 500 => httpErrorsTotal' = httpErrorsTotal]_vars

\* A request answered 200 and one answered 503 have completed, each counted
\* under its own label set, the first without an error accumulator.
C18_Witness ==
  /\ requests[1].pc = "finished" /\ requests[1].statusCode = 200
  /\ requests[2].pc = "finished" /\ requests[2].statusCode = 503
  /\ Value(httpRequestsTotal, Labels(requests[1])) = 1
  /\ Value(httpRequestsTotal, Labels(requests[2])) = 1
  /\ Series(httpRequestDuration, Labels(requests[1])).count = 1
  /\ Labels(requests[1]) \notin DOMAIN httpErrorsTotal
  /\ Labels(requests[2]) \in DOMAIN httpErrorsTotal

\* The status codes from 500 up, as label values.
ErrorCodeLabels == {String(c) : c \in 500..599}

\* The three metrics agree in the registry or rendering m.
Consistent(m) ==
  \A labels \in DOMAIN m.duration \cup DOMAIN m.requests \cup DOMAIN m.errors :
    /\ Value(m.errors, labels) <= Value(m.requests, labels)
    /\ Value(m.requests, labels) = Series(m.duration, labels).count
    /\ Value(m.errors, labels) > 0 => labels.status_code \in ErrorCodeLabels

\* C19: in every state between callbacks, and in every rendering a scrape
\* returned, for every label set: http_errors_total <= http_requests_total,
\* http_requests_total equals the histogram's count, and http_errors_total
\* is above zero only where status_code is 500 or more.
C19_MetricsConsistent ==
  /\ Consistent([duration |-> httpRequestDuration, requests |-> httpRequestsTotal,
                 errors |-> httpErrorsTotal])
  /\ \A r \in Reqs : requests[r].body # <<>> => Consistent(requests[r].body[1])

\* A scrape returned after a request answered 500 completed, while the
\* scrape's own completion is still to run.
C19_Witness ==
  /\ requests[1].pc = "finished"
  /\ requests[1].statusCode = 500
  /\ requests[2].pc = "finish"
  /\ requests[2].body # <<>>
  /\ Value(requests[2].body[1].errors, Labels(requests[1])) = 1
  /\ Value(requests[2].body[1].requests, Labels(requests[1])) = 1

====
